---- MODULE Spec2Model ----
(***************************************************************************)
(* A model of TSDemuxer (src/src/demux/ts-demuxer.ts): the MPEG-TS packet  *)
(* iterator parseChunks, the section parsers parsePAT / parsePMT, the PES  *)
(* reassembler handlePESSlice and the PES header parser parsePES.          *)
(*                                                                         *)
(* Byte buffers are sequences of numbers 0..255.  A JavaScript index i is  *)
(* the TLA+ index i + 1.  Reading past the end of a typed array yields     *)
(* Undef, which the bit operators turn into 0 as ToInt32(undefined) does.  *)
(***************************************************************************)
EXTENDS Integers, Sequences, FiniteSets, TLC

VARIABLES
    ts_packet_size_,   \* probe_data.ts_packet_size
    sync_offset_,      \* probe_data.sync_offset
    bound,             \* the callbacks of BaseDemuxer the host has set
    pat_,              \* <<>> (undefined) or <<PAT>>
    current_program_,  \* Undef until a PAT section is accepted
    current_pmt_pid_,
    pmt_,              \* <<>> (undefined) or <<[obj, aliased]>>, see PmtRef
    program_pmt_map_,  \* program_number -> PMT
    pid_pes_queues_,   \* pid -> PESQueue
    logged,            \* lines written through Log.e / Log.v, counted per site
    onErrorCalls,      \* invocations of the onError callback
    handoffs,          \* the calls of parsePES, in order
    dispatched,        \* the calls of parseH264Payload / parseAACPayload, in order
    ret,               \* what the last parseChunks call returned
    thrown,            \* the exception the last parseChunks call ended with
    obs,               \* history: what the packet iterator handed to the reassembler
    host,              \* history: the chunks the host has delivered
    stream,            \* history: the packets delivered, where a run keeps them
    probed             \* the last call of TSDemuxer.probe: <<>> or <<[buffer, result]>>

vars == <<ts_packet_size_, sync_offset_, bound, pat_, current_program_, current_pmt_pid_,
          pmt_, program_pmt_map_, pid_pes_queues_, logged, onErrorCalls,
          handoffs, dispatched, ret, thrown, obs, host, stream, probed>>

-----------------------------------------------------------------------------
(* Bounds of the model. *)

\* the most TS packets the host delivers over all calls
MaxPackets == 6

\* the most TS packets in one chunk
MaxChunkPackets == 3

\* the most TS packets the host delivers in the loss-of-sync scenarios
MaxDesyncPackets == 4

\* the most bytes that follow the 9-byte PES header in the timestamp scenarios
MaxTimestampBytes == 10

\* the most TS packets the host delivers in the queue admission scenarios
MaxAdmissionPackets == 5

\* the most TS packets the host delivers in the PES gating scenarios
MaxGatingPackets == 4

\* the most TS packets the host delivers in the corrupt header scenarios
MaxCorruptPackets == 4

\* the longest buffer given to probe
MaxProbeBytes == 1800

-----------------------------------------------------------------------------
(* Program constants. *)

SyncByte == 71                 \* 0x47
Undef == -1                    \* JavaScript's undefined, where a number is expected
NaN == -2                      \* the result of arithmetic on undefined

kPESPrivateData == 6
kADTSAAC == 15
kH264 == 27

\* stream_id values that carry no PES header (parsePES)
\* the callbacks parseChunks asks for
MandatoryCallbacks == {"onError", "onMediaInfo", "onTrackMetadata", "onDataAvailable"}

HeaderlessStreamIds == {188, 190, 191, 240, 241, 255, 242, 248}

-----------------------------------------------------------------------------
(* JavaScript's bit operators on the non-negative numbers the parser meets. *)

RECURSIVE BitAnd(_, _)
BitAnd(a, b) ==
    IF a = 0 \/ b = 0 THEN 0
    ELSE (a % 2) * (b % 2) + 2 * BitAnd(a \div 2, b \div 2)

RECURSIVE BitOr(_, _)
BitOr(a, b) ==
    IF a = 0 THEN b
    ELSE IF b = 0 THEN a
    ELSE (IF a % 2 = 1 \/ b % 2 = 1 THEN 1 ELSE 0) + 2 * BitOr(a \div 2, b \div 2)

Shl(a, n) == a * 2^n

Shr(a, n) == a \div 2^n

\* ToInt32 of a typed-array read: undefined becomes 0
U(x) == IF x = Undef THEN 0 ELSE x

\* data[i] of a Uint8Array
At(data, i) == IF i >= 0 /\ i < Len(data) THEN data[i + 1] ELSE Undef

\* new Uint8Array(buffer, offset, length) is a RangeError outside the buffer
ViewOk(buffer, offset, length) ==
    length >= 0 /\ offset >= 0 /\ offset + length <= Len(buffer)

View(buffer, offset, length) == SubSeq(buffer, offset + 1, offset + length)

-----------------------------------------------------------------------------
(* Objects used as maps (sparse keys). *)

EmptyMap == <<>>

Has(m, k) == k \in DOMAIN m

Get(m, k) == IF k \in DOMAIN m THEN m[k] ELSE Undef

Put(m, k, v) == [x \in (DOMAIN m) \cup {k} |-> IF x = k THEN v ELSE m[x]]

RECURSIVE Flatten(_)
Flatten(ss) == IF ss = <<>> THEN <<>> ELSE Head(ss) \o Flatten(Tail(ss))

RECURSIVE SumLen(_)
SumLen(ss) == IF ss = <<>> THEN 0 ELSE Len(Head(ss)) + SumLen(Tail(ss))

-----------------------------------------------------------------------------
(* The classes of pat-pmt-pes, as constructed. *)

NewPAT == [version_number |-> Undef, network_pid |-> Undef, program_pmt_pid |-> EmptyMap]

NewPMT ==
    [program_number |-> Undef, version_number |-> Undef,
     pid_stream_type |-> EmptyMap,
     common_pids |-> [h264 |-> Undef, adts_aac |-> Undef],
     pes_private_data_pids |-> {}]

NewPESQueue == [slices |-> <<>>, total_length |-> 0]

NoLog ==
    [sync_byte |-> 0, parsePAT |-> 0, parsePMT |-> 0,
     handlePESSlice |-> 0, parsePES_prefix |-> 0, parsePES_malformed |-> 0]

\* a logger that also calls back onError
LogAndReport(d, site) ==
    [d EXCEPT !.logged[site] = @ + 1, !.onErrorCalls = @ + 1]

\* Log.e(TAG, ...) / Log.v(TAG, ...): a line for the logger, no callback
Log(d, site) == [d EXCEPT !.logged[site] = @ + 1]

-----------------------------------------------------------------------------
(* probe *)

NoMatch == [match |-> FALSE]

Min(a, b) == IF a < b THEN a ELSE b

\* a scan that tries the first position only, and only its first byte
ProbeScanFirst(data, i, scan_window, ts_packet_size) ==
    IF i < scan_window /\ At(data, i) = SyncByte THEN i ELSE -1

\* the test of the for loop of probe: sync bytes at i and one and two packets on
SyncAt(data, i, ts_packet_size) ==
    /\ At(data, i) = SyncByte
    /\ At(data, i + ts_packet_size) = SyncByte
    /\ At(data, i + 2 * ts_packet_size) = SyncByte

\* the for loop of probe, from i up to the scan window: the first place that
\* passes the test, or -1.  The places are tried in rising order, the lower half
\* of the range before the upper, which keeps the evaluation shallow.
RECURSIVE ProbeScan(_, _, _, _)
ProbeScan(data, i, scan_window, ts_packet_size) ==
    IF ~(i < scan_window) THEN -1
    ELSE IF i + 1 = scan_window
         THEN IF SyncAt(data, i, ts_packet_size) THEN i ELSE -1
    ELSE LET half == i + (scan_window - i) \div 2
             sync_offset == ProbeScan(data, i, half, ts_packet_size)
         IN  IF sync_offset # -1 THEN sync_offset
             ELSE ProbeScan(data, half, scan_window, ts_packet_size)

\* the while loop of probe: one scan with 188, then one with 192
RECURSIVE ProbeLoop(_, _)
ProbeLoop(data, ts_packet_size) ==
    LET scan_window == Min(1000, Len(data) - 3 * ts_packet_size)
        sync_offset == ProbeScan(data, 0, scan_window, ts_packet_size)
    IN  IF sync_offset # -1
        THEN [match |-> TRUE, consumed |-> 0, ts_packet_size |-> ts_packet_size,
              sync_offset |-> sync_offset]
        ELSE IF ts_packet_size = 188 THEN ProbeLoop(data, 192)
        ELSE NoMatch

\* a probe that takes the first sync byte of the buffer as the start of a stream
probeFirstSync(buffer) ==
    IF \E k \in 1..Len(buffer) : buffer[k] = SyncByte
    THEN [match |-> TRUE, consumed |-> 0, ts_packet_size |-> 188,
          sync_offset |-> (CHOOSE k \in 1..Len(buffer) :
                              /\ buffer[k] = SyncByte
                              /\ \A j \in 1..(k - 1) : buffer[j] # SyncByte) - 1]
    ELSE NoMatch

\* TSDemuxer.probe(buffer)
probe(buffer) ==
    IF Len(buffer) <= 3 * 188 THEN NoMatch
    ELSE ProbeLoop(buffer, 188)

-----------------------------------------------------------------------------
(* parsePAT *)

\* the program loop of parsePAT: i runs from 8 in steps of 4
RECURSIVE PATLoop(_, _, _, _, _, _)
PATLoop(pat, data, i, end, first_program_number, first_pmt_pid) ==
    IF ~(i < end) THEN
        [pat |-> pat, first_program_number |-> first_program_number,
         first_pmt_pid |-> first_pmt_pid]
    ELSE
        LET program_number == BitOr(Shl(U(At(data, i)), 8), U(At(data, i + 1)))
            pid == BitOr(Shl(BitAnd(U(At(data, i + 2)), 31), 8), U(At(data, i + 3)))
        IN  IF program_number = 0 THEN
                PATLoop([pat EXCEPT !.network_pid = pid], data, i + 4, end,
                        first_program_number, first_pmt_pid)
            ELSE
                PATLoop([pat EXCEPT !.program_pmt_pid = Put(@, program_number, pid)],
                        data, i + 4, end,
                        IF first_program_number = -1 THEN program_number
                                                     ELSE first_program_number,
                        IF first_pmt_pid = -1 THEN pid ELSE first_pmt_pid)

\* a PAT parser that takes every section for the first current one
parsePATAnySection(d, buffer, offset, length) ==
    IF ~ViewOk(buffer, offset, length) THEN [d EXCEPT !.exc = "RangeError"]
    ELSE
    LET data == View(buffer, offset, length)
        section_length == BitOr(Shl(BitAnd(U(At(data, 1)), 15), 8), U(At(data, 2)))
        version_number == Shr(BitAnd(U(At(data, 5)), 62), 1)
        r == PATLoop([NewPAT EXCEPT !.version_number = version_number], data, 8,
                     8 + section_length - 5 - 4, -1, -1)
    IN  IF At(data, 0) # 0 THEN Log(d, "parsePAT")
        ELSE [d EXCEPT !.pat_ = <<r.pat>>,
                       !.current_program_ = r.first_program_number,
                       !.current_pmt_pid_ = r.first_pmt_pid]

parsePAT(d, buffer, offset, length) ==
    IF ~ViewOk(buffer, offset, length) THEN [d EXCEPT !.exc = "RangeError"]
    ELSE
    LET data == View(buffer, offset, length)
        table_id == At(data, 0)
        section_length == BitOr(Shl(BitAnd(U(At(data, 1)), 15), 8), U(At(data, 2)))
        version_number == Shr(BitAnd(U(At(data, 5)), 62), 1)
        current_next_indicator == BitAnd(U(At(data, 5)), 1)
        section_number == At(data, 6)
        accepted == current_next_indicator = 1 /\ section_number = 0
        program_start_index == 8
        program_bytes == section_length - 5 - 4
    IN  IF table_id # 0 THEN Log(d, "parsePAT")
        ELSE IF ~accepted /\ d.pat_ = <<>> THEN d
        ELSE
            LET pat0 == IF accepted THEN [NewPAT EXCEPT !.version_number = version_number]
                                    ELSE d.pat_[1]
                r == PATLoop(pat0, data, program_start_index,
                             program_start_index + program_bytes, -1, -1)
            IN  [d EXCEPT !.pat_ = <<r.pat>>,
                          !.current_program_ =
                              IF accepted THEN r.first_program_number ELSE @,
                          !.current_pmt_pid_ =
                              IF accepted THEN r.first_pmt_pid ELSE @]

-----------------------------------------------------------------------------
(* parsePMT *)

\* !pmt.common_pids.h264: unset, or set to PID 0
Falsy(x) == x = Undef \/ x = 0

\* a loop in which every H.264 or ADTS AAC stream becomes the common PID of its
\* kind, the last one staying
RECURSIVE PMTLoopLast(_, _, _, _)
PMTLoopLast(pmt, data, i, end) ==
    IF ~(i < end) THEN pmt
    ELSE
        LET stream_type == At(data, i)
            elementary_PID ==
                BitOr(Shl(BitAnd(U(At(data, i + 1)), 31), 8), U(At(data, i + 2)))
            p1 == [pmt EXCEPT !.pid_stream_type = Put(@, elementary_PID, stream_type)]
            p2 == IF stream_type = kH264 THEN
                      [p1 EXCEPT !.common_pids.h264 = elementary_PID]
                  ELSE IF stream_type = kADTSAAC THEN
                      [p1 EXCEPT !.common_pids.adts_aac = elementary_PID]
                  ELSE IF stream_type = kPESPrivateData THEN
                      [p1 EXCEPT !.pes_private_data_pids = @ \cup {elementary_PID}]
                  ELSE p1
            ES_info_length ==
                BitOr(Shl(BitAnd(U(At(data, i + 3)), 15), 8), U(At(data, i + 4)))
        IN  PMTLoopLast(p2, data, i + 5 + ES_info_length, end)

\* the elementary-stream loop of parsePMT
RECURSIVE PMTLoop(_, _, _, _)
PMTLoop(pmt, data, i, end) ==
    IF ~(i < end) THEN pmt
    ELSE
        LET stream_type == At(data, i)
            elementary_PID ==
                BitOr(Shl(BitAnd(U(At(data, i + 1)), 31), 8), U(At(data, i + 2)))
            p1 == [pmt EXCEPT !.pid_stream_type = Put(@, elementary_PID, stream_type)]
            p2 == IF stream_type = kH264 /\ Falsy(p1.common_pids.h264) THEN
                      [p1 EXCEPT !.common_pids.h264 = elementary_PID]
                  ELSE IF stream_type = kADTSAAC /\ Falsy(p1.common_pids.adts_aac) THEN
                      [p1 EXCEPT !.common_pids.adts_aac = elementary_PID]
                  ELSE IF stream_type = kPESPrivateData THEN
                      [p1 EXCEPT !.pes_private_data_pids = @ \cup {elementary_PID}]
                  ELSE p1
            ES_info_length ==
                BitOr(Shl(BitAnd(U(At(data, i + 3)), 15), 8), U(At(data, i + 4)))
        IN  PMTLoop(p2, data, i + 5 + ES_info_length, end)

\* this.pmt_ is a reference.  obj is the PMT it points to; aliased says that the
\* same object is program_pmt_map_[obj.program_number], so that a section which
\* updates that entry in place is seen through this.pmt_ too.
PmtRef(pmt, aliased) == <<[obj |-> pmt, aliased |-> aliased]>>

parsePMT(d, buffer, offset, length) ==
    IF ~ViewOk(buffer, offset, length) THEN [d EXCEPT !.exc = "RangeError"]
    ELSE
    LET data == View(buffer, offset, length)
        table_id == At(data, 0)
        section_length == BitOr(Shl(BitAnd(U(At(data, 1)), 15), 8), U(At(data, 2)))
        program_number == BitOr(Shl(U(At(data, 3)), 8), U(At(data, 4)))
        version_number == Shr(BitAnd(U(At(data, 5)), 62), 1)
        current_next_indicator == BitAnd(U(At(data, 5)), 1)
        section_number == At(data, 6)
        accepted == current_next_indicator = 1 /\ section_number = 0
        program_info_length ==
            BitOr(Shl(BitAnd(U(At(data, 10)), 15), 8), U(At(data, 11)))
        info_start_index == 12 + program_info_length
        info_bytes == section_length - 9 - program_info_length - 4
    IN  IF table_id # 2 THEN Log(d, "parsePMT")
        ELSE IF ~accepted /\ ~Has(d.program_pmt_map_, program_number) THEN d
        ELSE
            LET pmt0 == IF accepted THEN
                            [NewPMT EXCEPT !.program_number = program_number,
                                           !.version_number = version_number]
                        ELSE d.program_pmt_map_[program_number]
                pmt1 == PMTLoop(pmt0, data, info_start_index,
                                info_start_index + info_bytes)
                same == d.pmt_ # <<>> /\ d.pmt_[1].aliased
                        /\ d.pmt_[1].obj.program_number = program_number
            IN  [d EXCEPT
                   !.program_pmt_map_ = Put(@, program_number, pmt1),
                   !.pmt_ =
                       IF program_number = d.current_program_ THEN PmtRef(pmt1, TRUE)
                       ELSE IF same /\ accepted THEN PmtRef(d.pmt_[1].obj, FALSE)
                       ELSE IF same THEN PmtRef(pmt1, TRUE)
                       ELSE @]

-----------------------------------------------------------------------------
(* parsePES *)

\* The five-byte timestamp at data[i..i+4], as parsePES computes it in doubles:
\*   (data[i] & 0x0E) * 536870912 + (data[i+1] & 0xFF) * 4194304
\*   + (data[i+2] & 0xFE) * 16384 + (data[i+3] & 0xFF) * 128 + (data[i+4] & 0xFE) / 2
\* The sum can pass 2^31, past the numbers TLC computes with, so the value is
\* kept in two limbs: hi * 2^30 + lo.  (data[i] & 0x0E) is even, hence
\* (data[i] & 0x0E) * 2^29 = ((data[i] & 0x0E) / 2) * 2^30; the other four terms
\* add up to less than 2^30 and carry nothing into hi.
\* the same packing done with 32-bit shifts, which lose bit 32
TimestampShifted(data, i) ==
    [hi |-> (BitAnd(U(At(data, i)), 14) \div 2) % 4,
     lo |-> BitAnd(U(At(data, i + 1)), 255) * 4194304
            + BitAnd(U(At(data, i + 2)), 254) * 16384
            + BitAnd(U(At(data, i + 3)), 255) * 128
            + BitAnd(U(At(data, i + 4)), 254) \div 2]

Timestamp(data, i) ==
    [hi |-> BitAnd(U(At(data, i)), 14) \div 2,
     lo |-> BitAnd(U(At(data, i + 1)), 255) * 4194304
            + BitAnd(U(At(data, i + 2)), 254) * 16384
            + BitAnd(U(At(data, i + 3)), 255) * 128
            + BitAnd(U(At(data, i + 4)), 254) \div 2]

\* a decoder that never reads data[14..18]
DtsIsPts(data, PTS_DTS_flags, pts) == pts

\* dts, lines 408-416: decoded from data[14..18] with flags 3, else the pts
DecodeDts(data, PTS_DTS_flags, pts) ==
    IF PTS_DTS_flags = 3 THEN <<Timestamp(data, 14)>> ELSE pts

\* new Uint8Array(data, payload_start_index, payload_length) where data is itself a
\* Uint8Array: the constructor copies the typed array it is given, and reads the
\* byteOffset and length arguments only when it is given an ArrayBuffer.
TypedArrayCopy(data, byteOffset, length) == data

\* parseH264Payload / parseAACPayload: the elementary-stream handlers
Handler(d, name, payload, pts, dts, misc) ==
    [d EXCEPT !.dispatched =
        Append(@, [handler |-> name, payload |-> payload, pts |-> pts, dts |-> dts,
                   pid |-> misc.pid, call |-> Len(d.handoffs)])]

parsePES(d0, data, misc) ==
    LET d == [d0 EXCEPT !.handoffs =
                  Append(@, [pid |-> misc.pid, stream_type |-> misc.stream_type,
                             payload_unit_start_indicator |->
                                 misc.payload_unit_start_indicator,
                             data |-> data])]
        packet_start_code_prefix ==
            BitOr(BitOr(Shl(U(At(data, 0)), 16), Shl(U(At(data, 1)), 8)), U(At(data, 2)))
        stream_id == At(data, 3)
        PES_packet_length == BitOr(Shl(U(At(data, 4)), 8), U(At(data, 5)))
    IN  IF packet_start_code_prefix # 1 THEN Log(d, "parsePES_prefix")
        ELSE IF stream_id \in HeaderlessStreamIds THEN d
        ELSE
            LET PTS_DTS_flags == Shr(BitAnd(U(At(data, 7)), 192), 6)
                PES_header_data_length == At(data, 8)
                pts == IF PTS_DTS_flags = 2 \/ PTS_DTS_flags = 3
                       THEN <<Timestamp(data, 9)>> ELSE <<>>
                dts == IF PTS_DTS_flags = 2 \/ PTS_DTS_flags = 3
                       THEN DecodeDts(data, PTS_DTS_flags, pts) ELSE <<>>
                payload_start_index ==
                    IF PES_header_data_length = Undef THEN NaN
                    ELSE 6 + 3 + PES_header_data_length
                \* a comparison with NaN is false
                malformed == /\ PES_packet_length # 0
                             /\ PES_header_data_length # Undef
                             /\ PES_packet_length < 3 + PES_header_data_length
                payload_length ==
                    IF PES_header_data_length = Undef THEN NaN
                    ELSE IF PES_packet_length # 0
                         THEN PES_packet_length - 3 - PES_header_data_length
                         ELSE Len(data) - payload_start_index
                payload == TypedArrayCopy(data, payload_start_index, payload_length)
            IN  IF malformed THEN Log(d, "parsePES_malformed")
                ELSE IF misc.stream_type = kADTSAAC
                     THEN Handler(d, "parseAACPayload", payload, pts, dts, misc)
                ELSE IF misc.stream_type = kH264
                     THEN Handler(d, "parseH264Payload", payload, pts, dts, misc)
                ELSE d

-----------------------------------------------------------------------------
(* handlePESSlice *)

\* the merge of the queued slices: a zeroed Uint8Array of total_length bytes into
\* which every slice is set at the running offset (a RangeError past its end)
MergeOk(pes_queue) == SumLen(pes_queue.slices) <= pes_queue.total_length

Merge(pes_queue) ==
    LET cat == Flatten(pes_queue.slices)
    IN  [i \in 1..pes_queue.total_length |-> IF i <= Len(cat) THEN cat[i] ELSE 0]

\* the tail of handlePESSlice: push the slice into the PID's queue, if it has one
PushSlice(d, data, misc) ==
    IF ~Has(d.pid_pes_queues_, misc.pid) THEN d
    ELSE [d EXCEPT !.pid_pes_queues_[misc.pid] =
              [slices |-> Append(@.slices, data),
               total_length |-> @.total_length + Len(data)]]

\* lines 346-362: hand the queued PES, if the PID has a queue, to parsePES, then
\* give the PID a new queue
FlushQueue(d, misc) ==
    IF Has(d.pid_pes_queues_, misc.pid) THEN
        LET pes_queue == d.pid_pes_queues_[misc.pid]
        IN  IF ~MergeOk(pes_queue) THEN [d EXCEPT !.exc = "RangeError"]
            ELSE [parsePES(d, Merge(pes_queue), misc)
                     EXCEPT !.pid_pes_queues_ = Put(@, misc.pid, NewPESQueue)]
    ELSE [d EXCEPT !.pid_pes_queues_ = Put(@, misc.pid, NewPESQueue)]

StartCodePrefix(data) ==
    BitOr(BitOr(Shl(U(At(data, 0)), 16), Shl(U(At(data, 1)), 8)), U(At(data, 2)))

\* a reassembler that hands the queue on with every slice it receives
handlePESSliceEager(d, buffer, offset, length, misc) ==
    IF ~ViewOk(buffer, offset, length) THEN [d EXCEPT !.exc = "RangeError"]
    ELSE
    LET data == View(buffer, offset, length)
        d1 == IF misc.payload_unit_start_indicator = 1
              THEN [d EXCEPT !.pid_pes_queues_ = Put(@, misc.pid, NewPESQueue)]
              ELSE d
    IN  FlushQueue(PushSlice(d1, data, misc), misc)

\* a reassembler that gives a PID its queue with whatever slice comes first
handlePESSliceAdmitAll(d, buffer, offset, length, misc) ==
    IF ~ViewOk(buffer, offset, length) THEN [d EXCEPT !.exc = "RangeError"]
    ELSE
    LET data == View(buffer, offset, length)
        d1 == IF Has(d.pid_pes_queues_, misc.pid) THEN d
              ELSE [d EXCEPT !.pid_pes_queues_ = Put(@, misc.pid, NewPESQueue)]
    IN  IF misc.payload_unit_start_indicator = 1 THEN
            IF StartCodePrefix(data) # 1 THEN Log(d, "handlePESSlice")
            ELSE LET d2 == FlushQueue(d, misc)
                 IN  IF d2.exc # "none" THEN d2 ELSE PushSlice(d2, data, misc)
        ELSE PushSlice(d1, data, misc)

handlePESSlice(d, buffer, offset, length, misc) ==
    IF ~ViewOk(buffer, offset, length) THEN [d EXCEPT !.exc = "RangeError"]
    ELSE
    LET data == View(buffer, offset, length)
        packet_start_code_prefix == StartCodePrefix(data)
    IN  IF misc.payload_unit_start_indicator = 1 THEN
            IF packet_start_code_prefix # 1 THEN Log(d, "handlePESSlice")
            ELSE LET d1 == FlushQueue(d, misc)
                 IN  IF d1.exc # "none" THEN d1 ELSE PushSlice(d1, data, misc)
        ELSE PushSlice(d, data, misc)

-----------------------------------------------------------------------------
(* parseChunks *)

\* what one pass of the packet loop did: the demuxer after it, whether the loop
\* was left by break, and the parser the packet was handed to
Pass(d, brk, call) == [d |-> d, brk |-> brk, call |-> call]

NoCall == [fn |-> "none"]

Call(fn, offset, length, misc) ==
    [fn |-> fn, offset |-> offset, length |-> length, misc |-> misc]

\* the body of the while loop of parseChunks, for the packet at offset
ParsePacket(d, chunk, offset) ==
    LET v(k) == chunk[offset + k + 1]
        sync_byte == v(0)
        payload_unit_start_indicator == Shr(BitAnd(v(1), 64), 6)
        pid == BitOr(Shl(BitAnd(v(1), 31), 8), v(2))
        adaptation_field_control == Shr(BitAnd(v(3), 48), 4)
        continuity_conunter == BitAnd(v(3), 15)
        has_adaptation == adaptation_field_control = 2 \/ adaptation_field_control = 3
        has_payload == adaptation_field_control = 1 \/ adaptation_field_control = 3
        adaptation_field_length == v(4)
        start1 == IF has_adaptation THEN 4 + 1 + adaptation_field_length ELSE 4
        is_table == pid = 0 \/ pid = d.current_pmt_pid_
        with_pointer == is_table /\ payload_unit_start_indicator = 1
        \* v.getUint8(ts_payload_start_index) is a RangeError outside the DataView
        pointer_ok == start1 < ts_packet_size_
        ts_payload_start_index ==
            IF with_pointer THEN start1 + 1 + v(start1) ELSE start1
        ts_payload_length == ts_packet_size_ - ts_payload_start_index
        misc == [pid |-> pid,
                 payload_unit_start_indicator |-> payload_unit_start_indicator,
                 continuity_conunter |-> continuity_conunter]
    IN  IF sync_byte # SyncByte THEN Pass(Log(d, "sync_byte"), TRUE, NoCall)
        ELSE IF has_adaptation /\ 5 + adaptation_field_length = ts_packet_size_
            THEN Pass(d, FALSE, NoCall)
        ELSE IF ~has_payload THEN Pass(d, FALSE, NoCall)
        ELSE IF is_table THEN
            IF with_pointer /\ ~pointer_ok
                THEN Pass([d EXCEPT !.exc = "RangeError"], FALSE, NoCall)
            ELSE IF pid = 0 THEN
                Pass(parsePAT(d, chunk, offset + ts_payload_start_index,
                              ts_payload_length),
                     FALSE,
                     Call("parsePAT", offset + ts_payload_start_index,
                          ts_payload_length, misc))
            ELSE
                Pass(parsePMT(d, chunk, offset + ts_payload_start_index,
                              ts_payload_length),
                     FALSE,
                     Call("parsePMT", offset + ts_payload_start_index,
                          ts_payload_length, misc))
        ELSE IF d.pmt_ # <<>> /\ Get(d.pmt_[1].obj.pid_stream_type, pid) # Undef THEN
            LET pmt == d.pmt_[1].obj
                stream_type == pmt.pid_stream_type[pid]
                pes_misc == [pid |-> pid, stream_type |-> stream_type,
                             payload_unit_start_indicator |->
                                 payload_unit_start_indicator,
                             continuity_conunter |-> continuity_conunter]
            IN  IF \/ pid = pmt.common_pids.h264
                   \/ pid = pmt.common_pids.adts_aac
                   \/ pid \in pmt.pes_private_data_pids
                THEN Pass(handlePESSlice(d, chunk, offset + ts_payload_start_index,
                                         ts_payload_length, pes_misc),
                          FALSE,
                          Call("handlePESSlice", offset + ts_payload_start_index,
                               ts_payload_length, pes_misc))
                ELSE Pass(d, FALSE, NoCall)
        ELSE Pass(d, FALSE, NoCall)

-----------------------------------------------------------------------------
(* History of what the packet iterator handed on, kept beside the demuxer to    *)
(* state the claims.  It reads the bytes by itself and never the demuxer's      *)
(* tables or queues.                                                            *)

NoObs ==
    [unit |-> EmptyMap,      \* pid -> the slices handed on since the last start marker
     pusi |-> EmptyMap,      \* pid -> start markers handed on
     good |-> EmptyMap,      \* pid -> start markers whose slice begins 00 00 01
     opened |-> EmptyMap,    \* pid -> stream index of the last such start marker
     done |-> EmptyMap,      \* pid -> the units that a later start marker has ended
     bad |-> EmptyMap,       \* pid -> the last unit ended was malformed
     owed |-> <<>>,          \* the well-formed units ended next after a malformed one
     handed |-> <<>>,        \* per parsePES call: the packet that was being processed
     sections |-> 0,         \* sections handed to parsePAT / parsePMT
     bad_sections |-> 0]     \* ... of which with another table_id than theirs

Count(m, k) == IF k \in DOMAIN m THEN m[k] ELSE 0

SetAt(m, k) == IF k \in DOMAIN m THEN m[k] ELSE {}

\* the slice begins with the PES start code 00 00 01
BeginsPES(data) == Len(data) >= 3 /\ data[1] = 0 /\ data[2] = 0 /\ data[3] = 1

\* a reassembled unit that parsePES is to dispatch: start code, a stream_id with
\* a PES header, and PES_packet_length 0 or at least 3 + PES_header_data_length
WellFormedPES(buf) ==
    /\ Len(buf) >= 9
    /\ BeginsPES(buf)
    /\ buf[4] \notin HeaderlessStreamIds
    /\ LET PES_packet_length == buf[5] * 256 + buf[6]
       IN  PES_packet_length = 0 \/ PES_packet_length >= 3 + buf[9]

\* a unit that parsePES is to drop: no start code, or a PES_packet_length that is
\* not 0 and less than 3 + PES_header_data_length
MalformedPES(buf) ==
    \/ ~BeginsPES(buf)
    \/ /\ Len(buf) >= 9
       /\ buf[5] * 256 + buf[6] # 0
       /\ buf[5] * 256 + buf[6] < 3 + buf[9]

ObserveSlice(o, data, misc, idx, handedNow) ==
    LET pid == misc.pid
        start == misc.payload_unit_start_indicator = 1
        unit == IF Has(o.unit, pid) THEN o.unit[pid] ELSE [slices |-> <<>>, at |-> -1]
        ends == start /\ unit.slices # <<>>
        buf == Flatten(unit.slices)
    IN  [o EXCEPT
           !.pusi = IF start THEN Put(@, pid, Count(@, pid) + 1) ELSE @,
           !.good = IF start /\ BeginsPES(data) THEN Put(@, pid, Count(@, pid) + 1)
                    ELSE @,
           !.opened = IF start /\ BeginsPES(data) THEN Put(@, pid, idx) ELSE @,
           !.done = IF ends THEN Put(@, pid, SetAt(@, pid) \cup {unit.slices}) ELSE @,
           !.bad = IF ends /\ MalformedPES(buf) THEN Put(@, pid, TRUE)
                   ELSE IF ends /\ WellFormedPES(buf) THEN Put(@, pid, FALSE)
                   ELSE @,
           !.owed = IF ends /\ WellFormedPES(buf) /\ Has(o.bad, pid) /\ o.bad[pid]
                    THEN Append(@, [pid |-> pid, unit |-> unit.slices, at |-> unit.at])
                    ELSE @,
           !.handed = IF handedNow
                      THEN Append(@, [pid |-> pid, at |-> idx,
                                      payload_unit_start_indicator |->
                                          misc.payload_unit_start_indicator,
                                      unit |-> unit.slices, unit_at |-> unit.at,
                                      opened |-> Count(o.opened, pid)])
                      ELSE @,
           !.unit = IF start THEN Put(@, pid, [slices |-> <<data>>, at |-> idx])
                    ELSE IF Has(@, pid)
                         THEN Put(@, pid, [slices |-> Append(unit.slices, data),
                                           at |-> unit.at])
                    ELSE @]

\* idx: the place in the stream (1, 2, ...) of the packet at offset
Observe(before, pass, chunk, idx) ==
    LET c == pass.call
        o == before.obs
    IN  IF c.fn = "none" \/ ~ViewOk(chunk, c.offset, c.length) THEN o
        ELSE LET data == View(chunk, c.offset, c.length)
             IN  IF c.fn = "handlePESSlice"
                 THEN ObserveSlice(o, data, c.misc, idx,
                                   Len(pass.d.handoffs) > Len(before.handoffs))
                 ELSE [o EXCEPT
                         !.sections = @ + 1,
                         !.bad_sections =
                             IF At(data, 0) # (IF c.fn = "parsePAT" THEN 0 ELSE 2)
                             THEN @ + 1 ELSE @]

\* a loop that steps over a packet without sync byte and goes on
RECURSIVE ParseLoopOn(_, _, _, _)
ParseLoopOn(d, chunk, offset, idx) ==
    IF ~(offset + ts_packet_size_ <= Len(chunk)) THEN [d |-> d, offset |-> offset]
    ELSE
        LET pass == ParsePacket(d, chunk, offset)
            d1 == [pass.d EXCEPT !.obs = Observe(d, pass, chunk, idx)]
        IN  IF d1.exc # "none" THEN [d |-> d1, offset |-> offset]
            ELSE ParseLoopOn(d1, chunk, offset + ts_packet_size_, idx + 1)

\* the while loop of parseChunks
RECURSIVE ParseLoop(_, _, _, _)
ParseLoop(d, chunk, offset, idx) ==
    IF ~(offset + ts_packet_size_ <= Len(chunk)) THEN [d |-> d, offset |-> offset]
    ELSE
        LET pass == ParsePacket(d, chunk, offset)
            d1 == [pass.d EXCEPT !.obs = Observe(d, pass, chunk, idx)]
        IN  IF d1.exc # "none" \/ pass.brk THEN [d |-> d1, offset |-> offset]
            ELSE ParseLoop(d1, chunk, offset + ts_packet_size_, idx + 1)

\* a parser whose loop starts at the first byte of the chunk
parseChunksFromStart(d, chunk, idx) ==
    IF ~(MandatoryCallbacks \subseteq bound)
    THEN [d |-> [d EXCEPT !.exc = "IllegalStateException"], ret |-> Undef]
    ELSE
    LET r == ParseLoop([d EXCEPT !.exc = "none"], chunk, 0, idx)
    IN  [d |-> r.d, ret |-> IF r.d.exc = "none" THEN r.offset ELSE Undef]

\* a parser that does not ask for its callbacks
parseChunksUnchecked(d, chunk, idx) ==
    LET r == ParseLoop([d EXCEPT !.exc = "none"], chunk, sync_offset_, idx)
    IN  [d |-> r.d, ret |-> IF r.d.exc = "none" THEN r.offset ELSE Undef]

\* parseChunks(chunk, byteStart): the demuxer after the call and what it returned.
\* isInitialMetadataDispatched() is false, so nothing follows the loop.
parseChunks(d, chunk, idx) ==
    IF ~(MandatoryCallbacks \subseteq bound)
    THEN [d |-> [d EXCEPT !.exc = "IllegalStateException"], ret |-> Undef]
    ELSE
    LET r == ParseLoop([d EXCEPT !.exc = "none"], chunk, sync_offset_, idx)
    IN  [d |-> r.d, ret |-> IF r.d.exc = "none" THEN r.offset ELSE Undef]

-----------------------------------------------------------------------------
(* The transport streams the host delivers: TS packets of 188 bytes, built from *)
(* their fields.                                                                *)

Pid == [pmt |-> 4096, video |-> 256, audio |-> 257]

Fill(n, b) == [i \in 1..n |-> b]

TsHeader(pusi, pid, afc) == <<SyncByte, pusi * 64 + pid \div 256, pid % 256, afc * 16>>

\* adaptation_field_control 1: the payload, then stuffing to 188 bytes
PayloadPacket(pusi, pid, payload) ==
    TsHeader(pusi, pid, 1) \o payload \o Fill(184 - Len(payload), 255)

\* adaptation_field_control 3: an adaptation field of stuffing, then the payload,
\* which ends the packet
StuffedPacket(pusi, pid, payload) ==
    LET adaptation_field_length == 183 - Len(payload)
    IN  TsHeader(pusi, pid, 3) \o <<adaptation_field_length, 0>>
        \o Fill(adaptation_field_length - 1, 255) \o payload

\* PAT: program 1 -> PMT PID 0x1000
PatSection(table_id) ==
    <<0, table_id, 176, 13, 0, 1, 193, 0, 0, 0, 1, 240, 0, 1, 2, 3, 4>>

\* PMT of program 1: H.264 on PID 0x100, ADTS AAC on PID 0x101
PmtSection(table_id) ==
    <<0, table_id, 176, 23, 0, 1, 193, 0, 0, 225, 0, 240, 0,
      27, 225, 0, 240, 0, 15, 225, 1, 240, 0, 1, 2, 3, 4>>

\* a PAT section with one entry: flags is the byte of version_number and
\* current_next_indicator (0xC1: version 0, current; 0xC0: version 0, next)
PatFor(flags, section_number, program_number, pid) ==
    <<0, 0, 176, 13, 0, 1, flags, section_number, 0,
      program_number \div 256, program_number % 256, 224 + pid \div 256, pid % 256,
      1, 2, 3, 4>>

\* a PMT section with one elementary stream
PmtFor(flags, section_number, program_number, stream_type, elementary_PID) ==
    <<0, 2, 176, 18, program_number \div 256, program_number % 256, flags,
      section_number, 0, 225, 0, 240, 0,
      stream_type, 224 + elementary_PID \div 256, elementary_PID % 256, 240, 0,
      1, 2, 3, 4>>

\* PTS 90000 and DTS 86400 in the five-byte packing
Pts90000 == <<49, 0, 5, 191, 33>>

Dts86400 == <<17, 0, 5, 163, 1>>

\* PTS 2^33 - 1
PtsMax == <<47, 255, 255, 255, 255>>

Packets ==
    [PAT    |-> PayloadPacket(1, 0, PatSection(0)),
     PATX   |-> PayloadPacket(1, 0, PatSection(66)),
     PMT    |-> PayloadPacket(1, Pid.pmt, PmtSection(2)),
     PMTX   |-> PayloadPacket(1, Pid.pmt, PmtSection(66)),
     \* PAT: program 2 -> PMT PID 0x1001
     PAT2   |-> PayloadPacket(1, 0, PatFor(193, 0, 2, 4097)),
     \* PAT: the network PID only, no program
     PATN   |-> PayloadPacket(1, 0, PatFor(193, 0, 0, 16)),
     \* PAT sections that are not current (program 2) or not the first (program 3)
     PATC   |-> PayloadPacket(1, 0, PatFor(192, 0, 2, 4097)),
     PATS   |-> PayloadPacket(1, 0, PatFor(193, 1, 3, 4098)),
     \* PMT sections of program 1 that are not current (H.264 on PID 0x102) or not
     \* the first (ADTS AAC on PID 0x103)
     PMTC   |-> PayloadPacket(1, Pid.pmt, PmtFor(192, 0, 1, kH264, 258)),
     PMTS   |-> PayloadPacket(1, Pid.pmt, PmtFor(193, 1, 1, kADTSAAC, 259)),
     \* PMT of program 1 with two H.264 streams, on PID 0x100 and on PID 0x102
     PMTV   |-> PayloadPacket(1, Pid.pmt,
                    <<0, 2, 176, 23, 0, 1, 193, 0, 0, 225, 0, 240, 0,
                      kH264, 225, 0, 240, 0, kH264, 225, 2, 240, 0, 1, 2, 3, 4>>),
     \* PMT of program 1 whose H.264 stream is on the PMT's own PID 0x1000
     PMTP   |-> PayloadPacket(1, Pid.pmt, PmtFor(193, 0, 1, kH264, Pid.pmt)),
     \* video PES on PID 0x102, complete in one packet
     W3     |-> StuffedPacket(1, 258,
                    <<0, 0, 1, 224, 0, 15, 128, 192, 10>> \o Pts90000 \o Dts86400
                    \o <<170, 187>>),
     \* a PAT packet whose pointer_field is 255
     PATP   |-> PayloadPacket(1, 0, <<255>> \o Tail(PatSection(0))),
     \* a video packet with adaptation field and payload whose
     \* adaptation_field_length is 200
     VA     |-> TsHeader(0, Pid.video, 3) \o <<200>> \o Fill(183, 255),
     \* a packet with adaptation field only whose adaptation_field_length is 200
     VN     |-> TsHeader(0, Pid.video, 2) \o <<200>> \o Fill(183, 255),
     \* 188 bytes that do not begin with the sync byte
     XX     |-> <<0>> \o Tail(StuffedPacket(0, Pid.video, <<204, 221>>)),
     \* video PES, PTS and DTS, payload AA BB, complete in one packet
     V3     |-> StuffedPacket(1, Pid.video,
                    <<0, 0, 1, 224, 0, 15, 128, 192, 10>> \o Pts90000 \o Dts86400
                    \o <<170, 187>>),
     \* the continuation of a video PES
     VC     |-> StuffedPacket(0, Pid.video, <<204, 221>>),
     \* video start marker whose slice begins 00 00 02
     VB     |-> StuffedPacket(1, Pid.video, <<0, 0, 2, 224, 0, 0, 128, 0, 0, 238>>),
     \* video PES with PES_packet_length 2 < 3 + PES_header_data_length
     VM     |-> StuffedPacket(1, Pid.video,
                    <<0, 0, 1, 224, 0, 2, 128, 128, 5, 33, 0, 1, 0, 1, 238>>),
     \* video PES without timestamps, PES_packet_length 0
     V0     |-> StuffedPacket(1, Pid.video, <<0, 0, 1, 224, 0, 0, 128, 0, 0, 238>>),
     \* video PES, PTS only (2^33 - 1), payload 11 22
     V2     |-> StuffedPacket(1, Pid.video,
                    <<0, 0, 1, 224, 0, 10, 128, 128, 5>> \o PtsMax \o <<17, 34>>),
     \* audio PES, PTS only, complete in one packet
     A2     |-> StuffedPacket(1, Pid.audio,
                    <<0, 0, 1, 192, 0, 10, 128, 128, 5>> \o PtsMax \o <<17, 34>>)]

\* the packets of the reassembly scenarios
Menu == {"PAT", "PMT", "V3", "VC", "VB", "A2"}

SeqsUpTo(S, n) == UNION {[1..k -> S] : k \in 0..n}

\* The bytes of a chunk: the stream's first chunk begins with the sync_offset_
\* bytes that precede the first sync byte; with 192-byte packets every 188-byte
\* packet is followed by the 4 bytes of the next packet's TP_extra_header.  The
\* last `cut` bytes have not arrived yet.
ChunkBytes(first, pkts, cut) ==
    LET lead == IF first THEN Fill(sync_offset_, 0) ELSE <<>>
        body == Flatten([i \in 1..Len(pkts) |->
                           Packets[pkts[i]] \o Fill(ts_packet_size_ - 188, 0)])
        all == lead \o body
    IN  SubSeq(all, 1, Len(all) - cut)

-----------------------------------------------------------------------------
(* The state machine. *)

Demuxer ==
    [pat_ |-> pat_, current_program_ |-> current_program_,
     current_pmt_pid_ |-> current_pmt_pid_, pmt_ |-> pmt_,
     program_pmt_map_ |-> program_pmt_map_, pid_pes_queues_ |-> pid_pes_queues_,
     logged |-> logged, onErrorCalls |-> onErrorCalls,
     handoffs |-> handoffs, dispatched |-> dispatched, obs |-> obs, exc |-> "none"]

\* the demuxer as constructed from a probe result, before the host sets callbacks
Constructed ==
    /\ ts_packet_size_ \in {188, 192}
    /\ sync_offset_ \in {0, 4}
    /\ pat_ = <<>>
    /\ current_program_ = Undef
    /\ current_pmt_pid_ = -1
    /\ pmt_ = <<>>
    /\ program_pmt_map_ = EmptyMap
    /\ pid_pes_queues_ = EmptyMap
    /\ logged = NoLog
    /\ onErrorCalls = 0
    /\ handoffs = <<>>
    /\ dispatched = <<>>
    /\ ret = Undef
    /\ thrown = "none"
    /\ obs = NoObs
    /\ host = [calls |-> 0, fed |-> 0, len |-> 0, cut |-> 0]
    /\ stream = <<>>
    /\ probed = <<>>

\* ... and its callbacks set, as the host does before it delivers data
Init ==
    /\ Constructed
    /\ bound = MandatoryCallbacks

\* the loader's onDataArrival: one call of parseChunks
ParseChunks(pkts, cut) ==
    /\ host.fed + Len(pkts) <= MaxPackets
    /\ cut <= Len(pkts) * ts_packet_size_ + (IF host.calls = 0 THEN sync_offset_ ELSE 0)
    /\ \E chunk \in {ChunkBytes(host.calls = 0, pkts, cut)} :
       \E r \in {parseChunks(Demuxer, chunk, host.fed + 1)} :
           /\ pat_' = r.d.pat_
           /\ current_program_' = r.d.current_program_
           /\ current_pmt_pid_' = r.d.current_pmt_pid_
           /\ pmt_' = r.d.pmt_
           /\ program_pmt_map_' = r.d.program_pmt_map_
           /\ pid_pes_queues_' = r.d.pid_pes_queues_
           /\ logged' = r.d.logged
           /\ onErrorCalls' = r.d.onErrorCalls
           /\ handoffs' = r.d.handoffs
           /\ dispatched' = r.d.dispatched
           /\ obs' = r.d.obs
           /\ ret' = r.ret
           /\ thrown' = r.d.exc
           /\ host' = [calls |-> IF host.calls = 0 THEN 1 ELSE 2,
                       fed |-> host.fed + Len(pkts),
                       len |-> Len(chunk), cut |-> cut]
    /\ UNCHANGED <<ts_packet_size_, sync_offset_, bound, probed>>

\* a chunk arrives; its last packet may be short of `cut` bytes
DataArrival(pkts, cut) ==
    /\ ParseChunks(pkts, cut)
    /\ UNCHANGED stream

\* the same, for a stream cut into chunks at packet boundaries and remembered
StreamArrival(pkts) ==
    /\ ParseChunks(pkts, 0)
    /\ stream' = stream \o pkts

Next == \E pkts \in SeqsUpTo(Menu, MaxChunkPackets), cut \in {0, 1} : DataArrival(pkts, cut)

Spec == Init /\ [][Next]_vars

\* the packets of the PES header scenarios
MenuHeaders == {"PAT", "PATX", "PMT", "PMTX", "V3", "V2", "V0", "VM", "VB"}

NextHeaders == \E pkts \in SeqsUpTo(MenuHeaders, MaxChunkPackets) : DataArrival(pkts, 0)

SpecHeaders == Init /\ [][NextHeaders]_vars

\* the packets of the chunking scenarios
MenuStream == {"PAT", "PMT", "V3"}

NextStream == \E pkts \in SeqsUpTo(MenuStream, MaxChunkPackets) : StreamArrival(pkts)

SpecStream == Init /\ [][NextStream]_vars

\* the host sets a callback, or takes it away
SetCallback(cb, fn) ==
    /\ bound' = IF fn THEN bound \cup {cb} ELSE bound \ {cb}
    /\ bound' # bound
    /\ UNCHANGED <<ts_packet_size_, sync_offset_, pat_, current_program_,
                   current_pmt_pid_, pmt_, program_pmt_map_, pid_pes_queues_,
                   logged, onErrorCalls, handoffs, dispatched, ret, thrown, obs,
                   host, stream, probed>>

\* the packets of the callback scenarios
MenuCallbacks == {"PAT", "PMT", "V3"}

InitCallbacks ==
    /\ Constructed
    /\ bound = {}

NextCallbacks ==
    \/ \E cb \in MandatoryCallbacks \cup {"onMetaDataArrived"}, fn \in BOOLEAN :
           SetCallback(cb, fn)
    \/ \E pkts \in SeqsUpTo(MenuCallbacks, MaxChunkPackets) : DataArrival(pkts, 0)

SpecCallbacks == InitCallbacks /\ [][NextCallbacks]_vars

\* the packets of the program selection scenarios
MenuPrograms == {"PAT", "PAT2", "PATN", "PMT", "V3"}

NextPrograms ==
    \E pkts \in SeqsUpTo(MenuPrograms, MaxChunkPackets) : DataArrival(pkts, 0)

SpecPrograms == Init /\ [][NextPrograms]_vars

\* the packets of the section scenarios
MenuSections == {"PAT", "PMT", "PATC", "PATS", "PMTC", "PMTS"}

NextSections ==
    \E pkts \in SeqsUpTo(MenuSections, MaxChunkPackets) : DataArrival(pkts, 0)

SpecSections == Init /\ [][NextSections]_vars

\* the packets of the loss-of-sync scenarios
MenuDesync == {"PAT", "PMT", "V3", "XX"}

NextDesync ==
    \E pkts \in SeqsUpTo(MenuDesync, MaxChunkPackets) :
        /\ host.fed + Len(pkts) <= MaxDesyncPackets
        /\ StreamArrival(pkts)

SpecDesync == Init /\ [][NextDesync]_vars

\* the packets of the queue admission scenarios
MenuAdmission == {"PAT", "PMT", "V3", "VC", "VB"}

NextAdmission ==
    \E pkts \in SeqsUpTo(MenuAdmission, MaxChunkPackets) :
        /\ host.fed + Len(pkts) <= MaxAdmissionPackets
        /\ StreamArrival(pkts)

SpecAdmission == Init /\ [][NextAdmission]_vars

\* the packets of the PES gating scenarios
MenuGating == {"PAT", "PAT2", "PMT", "PMTV", "PMTP", "V3", "W3"}

NextGating ==
    \E pkts \in SeqsUpTo(MenuGating, MaxChunkPackets) :
        /\ host.fed + Len(pkts) <= MaxGatingPackets
        /\ StreamArrival(pkts)

SpecGating == Init /\ [][NextGating]_vars

\* the packets of the corrupt header scenarios
MenuCorrupt == {"PAT", "PMT", "V3", "PATP", "VA", "VN"}

NextCorrupt ==
    \E pkts \in SeqsUpTo(MenuCorrupt, MaxChunkPackets) :
        /\ host.fed + Len(pkts) <= MaxCorruptPackets
        /\ DataArrival(pkts, 0)

SpecCorrupt == Init /\ [][NextCorrupt]_vars

\* The reassembled PES buffers of the timestamp scenarios: the 9-byte header of a
\* video PES (PES_packet_length 0, PES_header_data_length 10) with each value of
\* PTS_DTS_flags, followed by 0 to MaxTimestampBytes bytes, the first of them
\* first and the others other.
TimestampFirstBytes == {0, 1, 14, 15, 241, 255}

TimestampOtherBytes == {0, 1, 128, 254, 255}

PESBuffers ==
    {<<0, 0, 1, 224, 0, 0, 128, flags * 64, 10>>
        \o (IF n = 0 THEN <<>> ELSE <<first>> \o Fill(n - 1, other)) :
     flags \in 0..3, n \in 0..MaxTimestampBytes,
     first \in TimestampFirstBytes, other \in TimestampOtherBytes}

\* handlePESSlice hands the reassembled buffer data of the video PID to parsePES
PESHandedOn(data) ==
    /\ handoffs = <<>>
    /\ \E r \in {parsePES(Demuxer, data,
                           [pid |-> Pid.video, stream_type |-> kH264,
                            payload_unit_start_indicator |-> 1,
                            continuity_conunter |-> 0])} :
           /\ handoffs' = r.handoffs
           /\ dispatched' = r.dispatched
           /\ logged' = r.logged
           /\ onErrorCalls' = r.onErrorCalls
    /\ UNCHANGED <<ts_packet_size_, sync_offset_, bound, pat_, current_program_,
                   current_pmt_pid_, pmt_, program_pmt_map_, pid_pes_queues_,
                   ret, thrown, obs, host, stream, probed>>

NextTimestamps == \E data \in PESBuffers : PESHandedOn(data)

SpecTimestamps == Init /\ [][NextTimestamps]_vars

\* The buffers given to probe: zero bytes, with sync bytes at the places of one
\* or two runs [first, spacing, count].
ProbeLengths == {0, 3 * 188, 3 * 188 + 1, 3 * 192, 3 * 192 + 5, 4 * 188, 4 * 192, MaxProbeBytes}

Run(first, spacing, count) == {first + j * spacing : j \in 0..(count - 1)}

Runs == {Run(first, spacing, count) :
             first \in {0, 4, 200, 1000}, spacing \in {188, 192}, count \in {2, 3, 4}}

SyncsAt(length, places) ==
    [k \in 1..length |-> IF (k - 1) \in places THEN SyncByte ELSE 0]

ProbeBuffers ==
    {SyncsAt(length, r1 \cup r2) :
         length \in ProbeLengths, r1 \in Runs \cup {{}},
         r2 \in {{}, Run(0, 192, 3), Run(4, 192, 3), Run(8, 188, 3)}}

\* the host probes the first bytes of its data, once
Probe(buffer) ==
    /\ probed = <<>>
    /\ probed' = <<[buffer |-> buffer, result |-> probe(buffer)]>>
    /\ UNCHANGED <<ts_packet_size_, sync_offset_, bound, pat_, current_program_,
                   current_pmt_pid_, pmt_, program_pmt_map_, pid_pes_queues_,
                   logged, onErrorCalls, handoffs, dispatched, ret, thrown, obs,
                   host, stream>>

NextProbe == \E buffer \in ProbeBuffers : Probe(buffer)

SpecProbe == Init /\ [][NextProbe]_vars

-----------------------------------------------------------------------------
(* Words for the claims. *)

\* the demuxer as constructed (the field initialisers of the class)
NewDemuxer ==
    [pat_ |-> <<>>, current_program_ |-> Undef, current_pmt_pid_ |-> -1,
     pmt_ |-> <<>>, program_pmt_map_ |-> EmptyMap, pid_pes_queues_ |-> EmptyMap,
     logged |-> NoLog, onErrorCalls |-> 0, handoffs |-> <<>>, dispatched |-> <<>>,
     obs |-> NoObs, exc |-> "none"]

\* the calls of parsePES for PID p
HandoffsOn(p) == {i \in 1..Len(handoffs) : handoffs[i].pid = p}

OneLess(n) == IF n = 0 THEN 0 ELSE n - 1

\* the buffer parsePES had when it made the j-th handler call
BufferOf(j) == handoffs[dispatched[j].call].data

\* seq is the beginning of whole
IsPrefix(seq, whole) == Len(seq) <= Len(whole) /\ seq = SubSeq(whole, 1, Len(seq))

\* the units of PID p: the ended ones, and the one the last start marker began
UnitsOn(p) ==
    SetAt(obs.done, p) \cup (IF Has(obs.unit, p) THEN {obs.unit[p].slices} ELSE {})

\* The 33-bit packing of a timestamp at bytes i..i+4 (JavaScript indices):
\*   ((b0 & 0x0E) << 29) | (b1 << 22) | ((b2 & 0xFE) << 14) | (b3 << 7) | ((b4 & 0xFE) >> 1)
\* in two limbs, hi * 2^30 + lo.
Packed33(buf, i) ==
    LET b(k) == IF i + k < Len(buf) THEN buf[i + k + 1] ELSE 0
    IN  [hi |-> (b(0) \div 2) % 8,
         lo |-> b(1) * 2^22 + (b(2) \div 2) * 2^15 + b(3) * 2^7 + b(4) \div 2]

FlagsOf(buf) == (buf[8] \div 64) % 4

-----------------------------------------------------------------------------
(* The claims. *)

\* C1 as claimed: parse_chunk returns c with sync_offset <= c <= chunk length,
\* for every chunk, also one shorter than sync_offset or than one packet.
C1_ReturnWithinChunk ==
    (host.calls > 0 /\ thrown = "none") => (sync_offset_ <= ret /\ ret <= host.len)

\* C1 as amended: parse_chunk returns c with sync_offset <= c and c - sync_offset
\* a multiple of packet_size; c <= chunk length for every chunk at least
\* sync_offset long (also one shorter than a packet), and c = sync_offset for a
\* chunk shorter than sync_offset.
C1_ReturnFromSyncOffset ==
    (host.calls > 0 /\ thrown = "none") =>
        /\ sync_offset_ <= ret
        /\ (ret - sync_offset_) % ts_packet_size_ = 0
        /\ host.len >= sync_offset_ => ret <= host.len
        /\ host.len < sync_offset_ => ret = sync_offset_

C1_Witness ==
    /\ host.calls > 0 /\ thrown = "none"
    /\ host.len < sync_offset_
    /\ ret = sync_offset_

\* C2: a stream cut into chunks at packet boundaries and parsed chunk by chunk
\* gives the same parsePES calls and handler calls, and ends in the same tables
\* and queues, as the whole stream parsed in one call.
C2_ChunkingIndependent ==
    Len(stream) = host.fed =>
        LET one == parseChunks(NewDemuxer, ChunkBytes(TRUE, stream, 0), 1).d
        IN  /\ handoffs = one.handoffs
            /\ dispatched = one.dispatched
            /\ pat_ = one.pat_
            /\ current_program_ = one.current_program_
            /\ current_pmt_pid_ = one.current_pmt_pid_
            /\ pmt_ = one.pmt_
            /\ program_pmt_map_ = one.program_pmt_map_
            /\ pid_pes_queues_ = one.pid_pes_queues_

\* C3: for every PID, the PES packets handed to parsePES are one fewer
\* than the start markers seen on the PID (none when there was no start marker),
\* whatever bytes the start-marker slices hold.
C3_OneLessThanMarkers ==
    \A p \in DOMAIN obs.pusi : Cardinality(HandoffsOn(p)) = OneLess(obs.pusi[p])

\* C4: every buffer handed to parsePES is exactly the slices of one unit (from a
\* start marker up to the next start marker on the PID), as long as its queue's
\* total_length and as the sum of the slices; a queue holds total_length bytes
\* and only slices of one unit, never a slice of a later unit after those of an
\* earlier one.
C4_HandoffIsOneUnit ==
    /\ \A i \in 1..Len(handoffs) :
           \E u \in SetAt(obs.done, handoffs[i].pid) :
               /\ handoffs[i].data = Flatten(u)
               /\ Len(handoffs[i].data) = SumLen(u)
    /\ \A p \in DOMAIN pid_pes_queues_ :
           /\ pid_pes_queues_[p].total_length = SumLen(pid_pes_queues_[p].slices)
           /\ \E u \in UnitsOn(p) : IsPrefix(pid_pes_queues_[p].slices, u)

\* C5: a PES is handed to parsePES, and its handler called, only while the next
\* start marker of its PID after the one that began it is processed, never
\* earlier (and at no other packet); and the hand-offs of all PIDs follow each
\* other in the order of the packets that set them off.
C5_EmissionOrder ==
    /\ Len(obs.handed) = Len(handoffs)
    /\ \A i \in 1..Len(handoffs) :
           /\ handoffs[i].payload_unit_start_indicator = 1
           /\ obs.handed[i].payload_unit_start_indicator = 1
           /\ obs.handed[i].pid = handoffs[i].pid
           \* the PES was begun by the start marker at `opened`; the last start
           \* marker before the packet being processed is the one at `unit_at`
           /\ 1 <= obs.handed[i].opened
           /\ obs.handed[i].opened < obs.handed[i].at
           /\ obs.handed[i].unit_at = obs.handed[i].opened
           /\ i > 1 => obs.handed[i - 1].at < obs.handed[i].at
    /\ \A j \in 1..Len(dispatched) :
           /\ dispatched[j].call \in 1..Len(handoffs)
           /\ dispatched[j].pid = handoffs[dispatched[j].call].pid
           /\ j > 1 => dispatched[j - 1].call < dispatched[j].call

\* the chunk of C6: one call, made of an accepted PAT, an accepted PMT that lists
\* the H.264 PID, and then the packets of one complete well-formed PES on that
\* PID, with no other start marker
C6_Scenario ==
    /\ host.calls = 1 /\ host.cut = 0 /\ thrown = "none" /\ ret = host.len
    /\ obs.sections = 2 /\ obs.bad_sections = 0
    /\ pmt_ # <<>>
    /\ LET v == pmt_[1].obj.common_pids.h264
       IN  /\ Has(obs.unit, v)
           /\ Get(pmt_[1].obj.pid_stream_type, v) = kH264
           /\ obs.pusi[v] = 1
           /\ obs.unit[v].at = 3
           /\ Len(obs.unit[v].slices) = host.fed - 2
           /\ LET buf == Flatten(obs.unit[v].slices)
              IN  /\ WellFormedPES(buf)
                  /\ buf[5] * 256 + buf[6] # 0
                  /\ Len(buf) >= 6 + buf[5] * 256 + buf[6]

\* C6 as claimed: after that chunk the video handler has been called exactly once.
C6_DeliveredOnce ==
    C6_Scenario =>
        Cardinality({j \in 1..Len(dispatched) :
                         dispatched[j].handler = "parseH264Payload"}) = 1

\* C6 as amended: after that chunk the video handler has not been called, and
\* parsePES neither: the PES is still queued, whole, on its PID (it is handed on
\* when a later start marker on the PID is processed).
C6_StaysQueued ==
    C6_Scenario =>
        /\ dispatched = <<>>
        /\ handoffs = <<>>
        /\ LET v == pmt_[1].obj.common_pids.h264
           IN  /\ Has(pid_pes_queues_, v)
               /\ pid_pes_queues_[v].slices = obs.unit[v].slices

C6_Witness == C6_Scenario /\ ts_packet_size_ = 188

\* C7: the payload a handler receives is the window of the PES buffer that
\* starts at 9 + PES_header_data_length and is payload_length long
\* (PES_packet_length - 3 - PES_header_data_length, or the rest of the buffer
\* when PES_packet_length is 0); no header byte is in it and it lies inside the
\* buffer.
C7_PayloadWindow ==
    \A j \in 1..Len(dispatched) :
        LET buf == BufferOf(j)
            payload_start == 9 + buf[9]
            PES_packet_length == buf[5] * 256 + buf[6]
            payload_length == IF PES_packet_length # 0
                              THEN PES_packet_length - 3 - buf[9]
                              ELSE Len(buf) - payload_start
        IN  /\ payload_length >= 0
            /\ payload_start + payload_length <= Len(buf)
            /\ dispatched[j].payload =
                   SubSeq(buf, payload_start + 1, payload_start + payload_length)

\* C8: a handler called for a PES with PTS_DTS_flags 2 receives a DTS equal to
\* the PTS; with flags 3 it receives the DTS packed in bytes 14..18 and the PTS
\* packed in bytes 9..13; with flags 0 or 1 it receives neither.
C8_DtsFollowsFlags ==
    \A j \in 1..Len(dispatched) :
        LET buf == BufferOf(j)
            pts == dispatched[j].pts
            dts == dispatched[j].dts
        IN  /\ FlagsOf(buf) = 2 => pts = <<Packed33(buf, 9)>> /\ dts = pts
            /\ FlagsOf(buf) = 3 => /\ pts = <<Packed33(buf, 9)>>
                                   /\ dts = <<Packed33(buf, 14)>>
            /\ FlagsOf(buf) \in {0, 1} => pts = <<>> /\ dts = <<>>

C8_Witness ==
    \E i, j, k \in 1..Len(dispatched) :
        /\ FlagsOf(BufferOf(i)) = 2
        /\ FlagsOf(BufferOf(j)) = 3 /\ dispatched[j].dts # dispatched[j].pts
        /\ FlagsOf(BufferOf(k)) = 0

\* the reassembled PES packets that parsePES was handed and that are malformed
MalformedHandoffs == {i \in 1..Len(handoffs) : MalformedPES(handoffs[i].data)}

\* the start markers whose slice does not begin 00 00 01
RECURSIVE BadStartsOn(_)
BadStartsOn(pids) ==
    IF pids = {} THEN 0
    ELSE LET p == CHOOSE q \in pids : TRUE
         IN  obs.pusi[p] - Count(obs.good, p) + BadStartsOn(pids \ {p})

BadStarts == BadStartsOn(DOMAIN obs.pusi)

\* C9 as claimed: on_error is called for every PAT/PMT section with another
\* table_id than its own and for every malformed PES (one that does not begin
\* 00 00 01, or whose PES_packet_length is not 0 and less than
\* 3 + PES_header_data_length).
C9_OnErrorInvoked ==
    onErrorCalls >= obs.bad_sections + Cardinality(MalformedHandoffs) + BadStarts

\* C9 as amended: such a parse error is written to the logger and on_error is
\* never called for it: one line per section with another table_id, one per
\* start marker whose slice does not begin 00 00 01, one per reassembled PES
\* with a bad PES_packet_length.
C9_ErrorsOnlyLogged ==
    /\ onErrorCalls = 0
    /\ logged.parsePAT + logged.parsePMT = obs.bad_sections
    /\ logged.handlePESSlice = BadStarts
    /\ logged.parsePES_prefix + logged.parsePES_malformed
           = Cardinality(MalformedHandoffs)

C9_Witness ==
    /\ obs.bad_sections >= 1
    /\ BadStarts >= 1
    /\ MalformedHandoffs # {}
    /\ logged.parsePAT + logged.parsePMT >= 1
    /\ logged.handlePESSlice >= 1
    /\ logged.parsePES_malformed >= 1

\* C10: no handler is called for a malformed PES unit, and the well-formed unit
\* that follows it on the PID is handed on, as exactly its own slices, and
\* dispatched when the start marker after it is processed.
C10_MalformedRecovery ==
    /\ \A j \in 1..Len(dispatched) :
           \A u \in SetAt(obs.done, dispatched[j].pid) :
               MalformedPES(Flatten(u)) => BufferOf(j) # Flatten(u)
    /\ \A k \in 1..Len(obs.owed) :
           \E j \in 1..Len(dispatched) :
               /\ dispatched[j].pid = obs.owed[k].pid
               /\ obs.handed[dispatched[j].call].unit_at = obs.owed[k].at
               /\ BufferOf(j) = Flatten(obs.owed[k].unit)

\* the tables and queues of the demuxer
Tables ==
    <<pat_, program_pmt_map_, pmt_, current_program_, current_pmt_pid_,
      pid_pes_queues_>>

\* C11: a parseChunks call made while one of the four callbacks is not set ends
\* with IllegalStateException, returns nothing, and leaves the PAT, the PMT map,
\* the active PMT, the current program and the PES queues as they were; a call
\* made while all four are set does not end so.  (A step that leaves the
\* callbacks alone is a parseChunks call.)
C11_CallbacksChecked ==
    [][bound' = bound =>
          IF MandatoryCallbacks \subseteq bound
          THEN thrown' # "IllegalStateException"
          ELSE /\ thrown' = "IllegalStateException"
               /\ ret' = Undef
               /\ Tables' = Tables
               /\ handoffs' = handoffs /\ dispatched' = dispatched
               /\ logged' = logged]_vars

C11_Witness ==
    /\ thrown = "IllegalStateException"
    /\ ~(MandatoryCallbacks \subseteq bound)
    /\ host.fed > host.calls
    /\ pat_ # <<>> /\ pmt_ # <<>>
    /\ pid_pes_queues_ # EmptyMap

\* C12: probe finds no match in a buffer of at most 3 * 188 = 564 bytes, whatever
\* its bytes.
C12_ShortBufferNoMatch ==
    \A k \in 1..Len(probed) :
        Len(probed[k].buffer) <= 564 => probed[k].result = [match |-> FALSE]

C12_Witness ==
    /\ probed # <<>>
    /\ Len(probed[1].buffer) = 564
    /\ probed[1].buffer[1] = SyncByte
    /\ probed[1].buffer[189] = SyncByte
    /\ probed[1].buffer[377] = SyncByte
    /\ probed[1].result = [match |-> FALSE]

\* the places i < min(1000, length - 3 * size) where the buffer holds sync bytes at
\* i, i + size and i + 2 * size
SyncPlaces(buffer, size) ==
    {i \in 0..(Min(1000, Len(buffer) - 3 * size) - 1) :
         /\ buffer[i + 1] = SyncByte
         /\ buffer[i + size + 1] = SyncByte
         /\ buffer[i + 2 * size + 1] = SyncByte}

Least(S) == CHOOSE x \in S : \A y \in S : x <= y

\* C13: for a buffer longer than 564 bytes probe returns a match with packet size
\* 188 at the least place of SyncPlaces(buffer, 188) if there is one, else a
\* match with 192 at the least place of SyncPlaces(buffer, 192) if there is one,
\* else no match; a match has consumed = 0, sync_offset < 1000 and its three
\* sync bytes inside the buffer.
C13_ProbeResult ==
    \A k \in 1..Len(probed) :
        LET buffer == probed[k].buffer
            result == probed[k].result
        IN  Len(buffer) > 564 =>
                /\ result =
                       IF SyncPlaces(buffer, 188) # {}
                       THEN [match |-> TRUE, consumed |-> 0, ts_packet_size |-> 188,
                             sync_offset |-> Least(SyncPlaces(buffer, 188))]
                       ELSE IF SyncPlaces(buffer, 192) # {}
                       THEN [match |-> TRUE, consumed |-> 0, ts_packet_size |-> 192,
                             sync_offset |-> Least(SyncPlaces(buffer, 192))]
                       ELSE [match |-> FALSE]
                /\ result.match =>
                       /\ result.sync_offset >= 0
                       /\ result.sync_offset < 1000
                       /\ result.sync_offset + 2 * result.ts_packet_size < Len(buffer)

\* a buffer with sync bytes 188 apart from place 1000 on, out of the scan window,
\* and 192 apart from place 4 on
C13_Witness ==
    /\ probed # <<>>
    /\ Len(probed[1].buffer) > 1564
    /\ \A j \in 0..2 : probed[1].buffer[1000 + j * 188 + 1] = SyncByte
    /\ probed[1].result.match
    /\ probed[1].result.ts_packet_size = 192
    /\ probed[1].result.sync_offset = 4

\* C14: whenever an active PMT is set, its program_number is current_program,
\* also after a later accepted PAT section that selects another first program or
\* lists no program.
C14_ActivePmtIsCurrent ==
    pmt_ # <<>> => pmt_[1].obj.program_number = current_program_

\* the sections whose current_next_indicator is not 1 or section_number not 0,
\* with the entry each carries
LaterSections ==
    {[packet |-> "PATC", pid |-> 0, key |-> 2, value |-> 4097],
     [packet |-> "PATS", pid |-> 0, key |-> 3, value |-> 4098],
     [packet |-> "PMTC", pid |-> Pid.pmt, key |-> 258, value |-> kH264],
     [packet |-> "PMTS", pid |-> Pid.pmt, key |-> 259, value |-> kADTSAAC]}

\* the demuxer after the packet iterator has processed packet x in this state
After(x) ==
    ParsePacket(Demuxer, Packets[x] \o Fill(ts_packet_size_ - 188, 0), 0).d

Positions(chunk) ==
    {o \in sync_offset_..Len(chunk) :
         /\ (o - sync_offset_) % ts_packet_size_ = 0
         /\ o + ts_packet_size_ <= Len(chunk)}

\* the first packet position of the chunk whose first byte is not 0x47, or -1
FirstDesync(chunk) ==
    LET lost == {o \in Positions(chunk) : chunk[o + 1] # 71}
    IN  IF lost = {} THEN -1 ELSE Least(lost)

\* The call that this step makes on the chunk of packets pkts halts at the first
\* packet position without sync byte: it returns that offset and ends in the
\* tables, queues and hand-offs of a call on the bytes before that position.
HaltsAtDesync(pkts) ==
    LET chunk == ChunkBytes(host.calls = 0, pkts, 0)
        at == FirstDesync(chunk)
        before == parseChunks(Demuxer, SubSeq(chunk, 1, at), host.fed + 1).d
    IN  at # -1 =>
            /\ thrown' = "none"
            /\ ret' = at
            /\ (at - sync_offset_) % ts_packet_size_ = 0
            /\ pat_' = before.pat_
            /\ program_pmt_map_' = before.program_pmt_map_
            /\ pmt_' = before.pmt_
            /\ current_program_' = before.current_program_
            /\ current_pmt_pid_' = before.current_pmt_pid_
            /\ pid_pes_queues_' = before.pid_pes_queues_
            /\ handoffs' = before.handoffs
            /\ dispatched' = before.dispatched
            /\ logged'.sync_byte = logged.sync_byte + 1

\* C16: a parseChunks call that reaches a packet position whose first byte is not
\* 0x47 stops there: it returns the offset of that packet, sync_offset plus a
\* multiple of packet_size; the packets before it have had their effect, that
\* packet and the packets after it none.  (A step that appends pkts to the
\* stream is the call on the chunk of pkts.)
C16_DesyncHalts ==
    [][\A pkts \in SeqsUpTo(MenuDesync, MaxChunkPackets) :
           stream' = stream \o pkts => HaltsAtDesync(pkts)]_vars

\* one chunk of a PAT, a packet without sync byte and a PMT
C16_Witness ==
    /\ stream = <<"PAT", "XX", "PMT">>
    /\ host.calls = 1
    /\ ret = sync_offset_ + ts_packet_size_
    /\ logged.sync_byte = 1
    /\ pat_ # <<>> /\ current_pmt_pid_ = Pid.pmt
    /\ program_pmt_map_ = EmptyMap /\ pmt_ = <<>>

\* the range [offset, offset + length) of the packet's bytes that the packet loop
\* hands to parsePAT, parsePMT or handlePESSlice for the packet x at offset 0
HandedRange(x) == ParsePacket(Demuxer, Packets[x] \o Fill(ts_packet_size_ - 188, 0), 0).call

\* C17: with 192-byte packets every payload range handed to the PAT or PMT parser
\* or to the PES reassembler ends with the 188-byte body of its packet (its
\* length is 188 minus the payload start), so that no queued slice holds bytes of
\* the 4-byte prefix of the next packet.
C17_PayloadInsideBody ==
    ts_packet_size_ = 192 =>
        /\ \A x \in Menu :
               HandedRange(x).fn # "none" =>
                   HandedRange(x).length = 188 - HandedRange(x).offset
        /\ \A pid \in DOMAIN pid_pes_queues_ :
               \A i \in 1..Len(pid_pes_queues_[pid].slices) :
                   Len(pid_pes_queues_[pid].slices[i]) <= 188 - 4

\* C18: every PTS and DTS that a handler receives for a PES with PTS_DTS_flags 2
\* or 3 is an integer from 0 to 2^33 - 1, whatever the bytes of the timestamp
\* fields and however many of them the buffer holds, and it is the 33-bit
\* packing of the field (the DTS field with flags 3, else the PTS field) computed
\* without 32-bit wrap-around.
C18_TimestampRange ==
    \A j \in 1..Len(dispatched) :
        FlagsOf(BufferOf(j)) \in {2, 3} =>
            /\ Len(dispatched[j].pts) = 1 /\ Len(dispatched[j].dts) = 1
            /\ \A t \in {dispatched[j].pts[1], dispatched[j].dts[1]} :
                   t.hi \in 0..7 /\ t.lo \in 0..(2^30 - 1)
            /\ dispatched[j].pts[1] = Packed33(BufferOf(j), 9)
            /\ dispatched[j].dts[1] =
                   Packed33(BufferOf(j), IF FlagsOf(BufferOf(j)) = 3 THEN 14 ELSE 9)

\* flags 3 with a PTS field of 0xFF bytes, which is 2^33 - 1, and no DTS field
C18_Witness ==
    \E j \in 1..Len(dispatched) :
        /\ FlagsOf(BufferOf(j)) = 3
        /\ Len(BufferOf(j)) = 14
        /\ dispatched[j].pts = <<[hi |-> 7, lo |-> 2^30 - 1]>>
        /\ dispatched[j].dts = <<[hi |-> 0, lo |-> 0]>>

\* the packet x, as it lies in a chunk
Lying(x) == Packets[x] \o Fill(ts_packet_size_ - 188, 0)

\* What the packet x does, were it the next packet, if it is handed to the
\* reassembler without start marker: nothing at all when its PID has no queue,
\* else its slice becomes the last of the queue and total_length grows by the
\* length of the slice.
AdmittedOrDropped(x) ==
    LET pass == ParsePacket(Demuxer, Lying(x), 0)
        call == pass.call
        p == call.misc.pid
        data == View(Lying(x), call.offset, call.length)
    IN  (call.fn = "handlePESSlice" /\ call.misc.payload_unit_start_indicator = 0) =>
            IF ~Has(pid_pes_queues_, p) THEN pass.d = Demuxer
            ELSE pass.d =
                   [Demuxer EXCEPT !.pid_pes_queues_[p] =
                       [slices |-> Append(pid_pes_queues_[p].slices, data),
                        total_length |-> pid_pes_queues_[p].total_length + Len(data)]]

\* C19: a PID has a PES queue only if a packet with payload_unit_start_indicator 1
\* was processed on it before; the first slice of every queue that is not empty
\* arrived with payload_unit_start_indicator 1; a slice without start marker on
\* a PID that has no queue is dropped and changes nothing, and on a PID that has
\* one it is appended last, total_length growing by its length.
C19_QueueAdmission ==
    /\ \A p \in DOMAIN pid_pes_queues_ :
           /\ Count(obs.pusi, p) > 0
           /\ pid_pes_queues_[p].slices # <<>> =>
                  pid_pes_queues_[p].slices[1] \in {u[1] : u \in UnitsOn(p)}
           /\ pid_pes_queues_[p].total_length = SumLen(pid_pes_queues_[p].slices)
    /\ \A x \in MenuAdmission : AdmittedOrDropped(x)

\* PAT, PMT, a continuation that is dropped, a start and a continuation that is
\* appended
C19_Witness ==
    /\ stream = <<"PAT", "PMT", "VC", "V3", "VC">>
    /\ logged = NoLog
    /\ Has(pid_pes_queues_, Pid.video)
    /\ Len(pid_pes_queues_[Pid.video].slices) = 2
    /\ handoffs = <<>>

\* the PID in the header of packet x
PidOf(x) == (Packets[x][2] % 32) * 256 + Packets[x][3]

\* Packet x, were it the next packet, leaves the demuxer as after and is handed
\* on as call.  If it opens or extends a PES queue then it is not on PID 0 nor on
\* current_pmt_pid, this.pmt_ is set, and its PID is the H.264 PID, the ADTS AAC
\* PID or one of the private-data PIDs of this.pmt_; and the demuxer holds a PAT
\* and the accepted PMT of the program of this.pmt_.
GatedByPmt(x, after) ==
    after.pid_pes_queues_ # pid_pes_queues_ =>
        /\ pmt_ # <<>>
        /\ \/ PidOf(x) = pmt_[1].obj.common_pids.h264
           \/ PidOf(x) = pmt_[1].obj.common_pids.adts_aac
           \/ PidOf(x) \in pmt_[1].obj.pes_private_data_pids
        /\ PidOf(x) # 0 /\ PidOf(x) # current_pmt_pid_
        /\ pat_ # <<>>
        /\ Has(program_pmt_map_, pmt_[1].obj.program_number)

\* it is handed to parsePMT only on the PID that a PAT has selected
PmtAfterPat(x, call) ==
    call.fn = "parsePMT" =>
        /\ pat_ # <<>>
        /\ Has(pat_[1].program_pmt_pid, current_program_)
        /\ pat_[1].program_pmt_pid[current_program_] = PidOf(x)

\* on a PID that this.pmt_ lists as H.264 or ADTS AAC next to the common PID of
\* that kind it changes nothing
SecondPidIgnored(x, after) ==
    (/\ pmt_ # <<>>
     /\ PidOf(x) # 0 /\ PidOf(x) # current_pmt_pid_
     /\ \/ /\ Get(pmt_[1].obj.pid_stream_type, PidOf(x)) = kH264
           /\ PidOf(x) # pmt_[1].obj.common_pids.h264
        \/ /\ Get(pmt_[1].obj.pid_stream_type, PidOf(x)) = kADTSAAC
           /\ PidOf(x) # pmt_[1].obj.common_pids.adts_aac)
    => after = Demuxer

\* the k-th packet of the stream follows a PAT that selects program 1 with PMT
\* PID 0x1000 and then, before another PAT, a PMT section of program 1
TablesBefore(k) ==
    \E i \in 1..k, j \in 1..k :
        /\ i < j /\ j < k
        /\ stream[i] = "PAT"
        /\ stream[j] \in {"PMT", "PMTV", "PMTP"}
        /\ \A m \in i..j : stream[m] # "PAT2"

\* C20: a PES queue for PID p is opened or extended only while an active PMT
\* exists and p is its H.264 PID, its ADTS AAC PID or one of its private-data
\* PIDs; hence no slice is queued before a PAT section and then a PMT section of
\* the program it made current have been accepted, a PMT is never parsed before
\* a PAT selected its PID, packets on PID 0 or on current_pmt_pid are never
\* queued as PES, and a second H.264 (or ADTS AAC) PID of the same PMT is never
\* reassembled (PID 0x102, which only the PMT with two H.264 streams lists, as
\* the second, never has a queue).
C20_PESGating ==
    /\ pid_pes_queues_ # EmptyMap =>
           \E k \in 1..Len(stream) : stream[k] \in {"V3", "W3"} /\ TablesBefore(k)
    /\ program_pmt_map_ # EmptyMap => pat_ # <<>>
    /\ ~Has(pid_pes_queues_, PidOf("W3"))
    /\ \A x \in MenuGating :
           \E pass \in {ParsePacket(Demuxer, Lying(x), 0)} :
               /\ GatedByPmt(x, pass.d)
               /\ PmtAfterPat(x, pass.call)
               /\ SecondPidIgnored(x, pass.d)

\* PAT, the PMT with two H.264 streams, a PES on the second of them, which is
\* not queued, and a PES on the first, which is
C20_Witness ==
    /\ stream = <<"PAT", "PMTV", "W3", "V3">>
    /\ logged = NoLog
    /\ DOMAIN pid_pes_queues_ = {Pid.video}
    /\ Len(pid_pes_queues_[Pid.video].slices) = 1

\* C21: for every packet that begins with 0x47, whatever its
\* adaptation_field_control, adaptation_field_length and pointer_field, the
\* payload start is from 4 to packet_size, so that the range handed to parsePAT,
\* parsePMT or handlePESSlice has a length of 0 or more and lies inside the
\* packet; parseChunks never fails on such a header, it processes or skips the
\* packet and goes on to the next.
C21_PayloadBounds ==
    /\ thrown = "none"
    /\ \A x \in MenuCorrupt :
           \E pass \in {ParsePacket(Demuxer, Lying(x), 0)} :
               /\ pass.d.exc = "none"
               /\ ~pass.brk
               /\ pass.call.fn # "none" =>
                      /\ 4 <= pass.call.offset
                      /\ pass.call.length >= 0
                      /\ pass.call.offset + pass.call.length <= ts_packet_size_

====
